---- MODULE Spec2Model ----
(***************************************************************************)
(* Ground-control-station session manager (MavlinkHandler, MissionPlanner).*)
(* One thread of control calls the handler's operations.  The blocking     *)
(* handshakes (connect, upload_mission, get_parameters) are modelled one   *)
(* received frame at a time: pc is the blocking receive the thread is in.  *)
(* A non-blocking operation is one atomic action.  Every call ends in      *)
(* pc = "returned", where op, result, table and trace describe the call;   *)
(* Return hands control back to the caller.                                *)
(***************************************************************************)
EXTENDS Integers, Sequences, FiniteSets, TLC

\* ---------------------------------------------------------------- bounds
MaxTime == 4
MaxWp == 2
MaxParams == 1
MaxCount == 3
MaxBatch == 2
MaxMission == 3

\* ------------------------------------------------------ program constants
heartbeat_timeout == 3
source_system == 255
MAV_COMP_ID_MISSIONPLANNER == 190
source_component == MAV_COMP_ID_MISSIONPLANNER
MAV_CMD_COMPONENT_ARM_DISARM == 400
MAV_CMD_MISSION_START == 300
MAV_CMD_NAV_WAYPOINT == 16
MAV_CMD_NAV_TAKEOFF == 22
MAV_CMD_NAV_LAND == 21
MAV_CMD_NAV_RETURN_TO_LAUNCH == 20
MAV_CMD_NAV_LOITER_TIME == 19
MAV_FRAME_GLOBAL_RELATIVE_ALT == 3
MAV_MISSION_TYPE_MISSION == 0
MAV_MODE_FLAG_CUSTOM_MODE_ENABLED == 1
MAV_MODE_FLAG_SAFETY_ARMED == 128
MAV_PARAM_TYPE_REAL32 == 9

\* The vehicle's mode-name table (mavutil.mode_mapping): name -> numeric id.
mode_mapping == [STABILIZE |-> 0, AUTO |-> 3, GUIDED |-> 4]
ModeNames == {"STABILIZE", "AUTO", "GUIDED", "UNKNOWN_MODE"}

\* A system/component id that is not this station's.
OtherId == 1

\* ----------------------------------------------------------------- frames
\* Inbound frames, as decoded by the codec.
\* A HEARTBEAT carries the sender's ids, its base mode (flag bits) and its
\* custom mode (numeric flight mode).
HeartbeatOf(base_mode, custom_mode) ==
    [kind |-> "HEARTBEAT", src_system |-> OtherId, src_component |-> OtherId,
     base_mode |-> base_mode, custom_mode |-> custom_mode]
Heartbeat ==
    HeartbeatOf(MAV_MODE_FLAG_SAFETY_ARMED + MAV_MODE_FLAG_CUSTOM_MODE_ENABLED, 3)
MissionAck == [kind |-> "MISSION_ACK"]
ParamExtValue == [kind |-> "PARAM_EXT_VALUE"]
OtherFrame == [kind |-> "ATTITUDE"]

MissionRequest(seq, tsys, tcomp) ==
    [kind |-> "MISSION_REQUEST", seq |-> seq,
     target_system |-> tsys, target_component |-> tcomp]

\* The vehicle names its parameter number idx ParamName(idx).
ParamName(idx) == 100 + idx
ParamValues == {5}

ParamValue(idx, count, val) ==
    [kind |-> "PARAM_VALUE", param_id |-> ParamName(idx), param_value |-> val,
     param_index |-> idx, param_count |-> count]

MissionRequests ==
    {MissionRequest(s, t[1], t[2]) :
        s \in 0..(MaxWp - 1),
        t \in {<<source_system, source_component>>,
               <<source_system, OtherId>>,
               <<OtherId, source_component>>}}

ParamValueFrames ==
    {ParamValue(idx, c, v) :
        idx \in 0..(MaxParams - 1), c \in 0..MaxParams, v \in ParamValues}

\* Everything the transport may hand to a receive.
Frames ==
    {Heartbeat, MissionAck, ParamExtValue, OtherFrame}
        \cup MissionRequests \cup ParamValueFrames

\* The telemetry frames _process_message decodes.
GlobalPositionInt ==
    [kind |-> "GLOBAL_POSITION_INT", lat |-> 473977000, lon |-> 85455000,
     alt |-> 48800, hdg |-> 9050]
VfrHud == [kind |-> "VFR_HUD", groundspeed |-> 12]
SysStatus ==
    [kind |-> "SYS_STATUS", voltage_battery |-> 12600, battery_remaining |-> 87]

\* A heartbeat of a vehicle that is disarmed, in a mode the table does not name.
HeartbeatUnknownMode == HeartbeatOf(MAV_MODE_FLAG_CUSTOM_MODE_ENABLED, 99)

TelemetryFrames ==
    {Heartbeat, HeartbeatUnknownMode, GlobalPositionInt, VfrHud, SysStatus,
     OtherFrame}

\* A transport read error (recv_match raises).
ReadError == [kind |-> "READ_ERROR"]

\* What a blocking receive may get: a frame or a read error.
Reads == Frames \cup {ReadError}

\* What the receive of the item loop may get.  It does not read a request's
\* target, so one kind of misaddressed request stands for them all.
ItemReads == {r \in Reads : r.kind = "MISSION_REQUEST" => r.target_system = source_system}

RECURSIVE SeqsUpTo(_, _)
SeqsUpTo(S, n) ==
    IF n = 0 THEN {<<>>}
    ELSE LET shorter == SeqsUpTo(S, n - 1)
         IN  shorter \cup {Append(s, x) : s \in {t \in shorter : Len(t) = n - 1}, x \in S}

\* The frames available to one poll.  A poll reads a frame's kind and, of a
\* PARAM_VALUE, its name and value: one frame of each such class is enough.
PollFrames ==
    {Heartbeat, OtherFrame}
        \cup {ParamValue(idx, MaxParams, v) : idx \in 0..(MaxParams - 1), v \in ParamValues}
Batches == SeqsUpTo(PollFrames, MaxBatch)

\* Waypoint dictionaries handed to upload_mission: one with every key the
\* planner writes, one with only x and y (wp.get supplies the defaults).
WpFull ==
    [x |-> 11, y |-> 12, z |-> 13, p1 |-> 21, p2 |-> 22, p3 |-> 23, p4 |-> 24,
     frame |-> 6, command |-> MAV_CMD_NAV_TAKEOFF, autocontinue |-> 1]
WpBare == [x |-> 31, y |-> 32]
WaypointDicts == {WpFull, WpBare}

\* The waypoint lists tried: of every length up to MaxWp, the two kinds of
\* dictionary alternating, starting with either.
Alternating(first, n) ==
    [k \in 1..n |-> IF (k % 2 = 1) = first THEN WpFull ELSE WpBare]
WaypointLists == {Alternating(first, n) : first \in BOOLEAN, n \in 0..MaxWp}

\* dict.get(key, default)
Get(d, key, default) == IF key \in DOMAIN d THEN d[key] ELSE default

\* ------------------------------------------------------------------ state
VARIABLES
    connected,          \* self.connected
    last_heartbeat,     \* self.last_heartbeat
    master,             \* self.master: "none", "open" or "closed"
    vehicle_system,     \* self.vehicle_system (0: None)
    vehicle_component,  \* self.vehicle_component (0: None)
    params,             \* self.master.params, the link's parameter cache
    now,                \* time.time()
    pc,                 \* where the calling thread is
    op,                 \* the operation being called
    waypoints,          \* upload_mission's argument
    mode,               \* set_mode's argument ("": none)
    i,                  \* upload_mission's loop index
    result,             \* the call's result: "none", "True", "False", "dict", "raise"
    table,              \* the mapping get_parameters returned
    trace,              \* the call's sends and the frames its receives returned
    entry,              \* connected when the call began, and for get_parameters
                        \* the parameter cache it began with
    vehCount,           \* the vehicle: parameter count it reports
    vehPending,         \* the vehicle: parameter indices still to deliver
    telemetry,          \* self.telemetry, the TelemetryData snapshot
    planner_waypoints,  \* MissionPlanner.waypoints
    current_mission,    \* MissionPlanner.current_mission
    edit_args,          \* the arguments of the planner's last add, insert or
                        \* remove call
    polled,             \* observer: the frames the poll in progress drained and
                        \* whether its read raised
    hb_seen             \* observer: when the transport last delivered a
                        \* HEARTBEAT to a receive (-1: never)

handlerVars ==
    <<connected, last_heartbeat, master, vehicle_system, vehicle_component,
      params, telemetry>>
callVars == <<pc, op, waypoints, mode, i, result, table, trace, entry>>
vehVars == <<vehCount, vehPending>>
plannerVars == <<planner_waypoints, current_mission, edit_args>>
observerVars == <<polled, hb_seen>>
vars == <<handlerVars, now, callVars, vehVars, plannerVars, observerVars>>

\* Ratio(n, d) stands for the float n / d.
Ratio(n, d) == [num |-> n, den |-> d]

\* TelemetryData(): the dataclass defaults.
TelemetryData ==
    [latitude |-> Ratio(0, 1), longitude |-> Ratio(0, 1), altitude |-> Ratio(0, 1),
     heading |-> Ratio(0, 1), groundspeed |-> 0, battery_voltage |-> Ratio(0, 1),
     battery_remaining |-> 0, mode |-> "UNKNOWN", armed |-> FALSE,
     system_status |-> "UNKNOWN", timestamp |-> 0]

\* No poll is in progress.
NoPoll == [batch |-> <<>>, failed |-> FALSE, last |-> 0]

\* The step is not one the observers record.
Unobserved == UNCHANGED observerVars

EmptyTable == [n \in {} |-> 0]

NoEntry == [connected |-> FALSE, cache |-> EmptyTable]

\* A call begins: whether it finds the link connected.
Enter == entry' = [connected |-> connected, cache |-> EmptyTable]

\* ----------------------------------------------------------- trace events
Tx(f, ok) == [dir |-> "tx", ok |-> ok, f |-> f]
Rx(f) == [dir |-> "rx", ok |-> TRUE, f |-> f]

\* The frames the call handed to the transport.
SentFrames(tr) ==
    SelectSeq(tr, LAMBDA e : e.dir = "tx" /\ e.ok)

\* The sends the call attempted.
SendAttempts(tr) ==
    SelectSeq(tr, LAMBDA e : e.dir = "tx")

Init ==
    /\ connected = FALSE
    /\ last_heartbeat = 0
    /\ master = "none"
    /\ vehicle_system = 0
    /\ vehicle_component = 0
    /\ params = EmptyTable
    /\ now = 0
    /\ pc = "idle"
    /\ op = "none"
    /\ waypoints = <<>>
    /\ mode = ""
    /\ i = 0
    /\ result = "none"
    /\ table = EmptyTable
    /\ trace = <<>>
    /\ entry = NoEntry
    /\ vehCount = 0
    /\ vehPending = {}
    /\ telemetry = TelemetryData
    /\ planner_waypoints = <<>>
    /\ current_mission = ""
    /\ edit_args = <<>>
    /\ polled = NoPoll
    /\ hb_seen = -1

\* The call returns res (and, for get_parameters, the mapping tbl).
Returns(res, tbl) ==
    /\ pc' = "returned"
    /\ result' = res
    /\ table' = tbl

\* Control is back with the caller, who may call the next operation.
Return ==
    /\ pc = "returned"
    /\ pc' = "idle"
    /\ op' = "none"
    /\ waypoints' = <<>>
    /\ mode' = ""
    /\ i' = 0
    /\ result' = "none"
    /\ table' = EmptyTable
    /\ trace' = <<>>
    /\ entry' = NoEntry
    /\ vehCount' = 0
    /\ vehPending' = {}
    /\ polled' = NoPoll
    /\ UNCHANGED <<handlerVars, now, plannerVars, hb_seen>>

\* Time passes (not while a call is returning).
Tick ==
    /\ pc # "returned"
    /\ now < MaxTime
    /\ now' = now + 1
    /\ UNCHANGED <<handlerVars, callVars, vehVars, plannerVars, observerVars>>

\* ------------------------------------------------- the link's read effects
\* The codec's cache of parameter values: every PARAM_VALUE frame read from
\* the transport is stored under its name, whichever receive reads it.
StoreParam(tbl, f) ==
    IF f.kind = "PARAM_VALUE"
    THEN [n \in DOMAIN tbl \cup {f.param_id} |->
            IF n = f.param_id THEN f.param_value ELSE tbl[n]]
    ELSE tbl

RECURSIVE StoreAll(_, _)
StoreAll(tbl, fs) ==
    IF fs = <<>> THEN tbl ELSE StoreAll(StoreParam(tbl, Head(fs)), Tail(fs))

\* A receive reads the frame f from the transport.
ReadInto(f) == params' = StoreParam(params, f)

\* ---------------------------------------------------------------- connect
\* connect(), up to the blocking wait for the first heartbeat.  Opening the
\* transport may fail; a new link object starts with an empty parameter cache.
Connect(opened) ==
    /\ pc = "idle"
    /\ op' = "connect"
    /\ Enter
    /\ trace' = <<>>
    /\ UNCHANGED <<waypoints, mode, i, now, vehVars, last_heartbeat,
                   vehicle_system, vehicle_component, telemetry, plannerVars,
                   observerVars>>
    /\ IF opened
       THEN /\ master' = "open"
            /\ params' = EmptyTable
            /\ pc' = "connect_wait"
            /\ UNCHANGED <<connected, result, table>>
       ELSE /\ connected' = FALSE
            /\ Returns("False", EmptyTable)
            /\ UNCHANGED <<master, params>>

\* wait_heartbeat() reads r: the first heartbeat completes connect().
ConnectRecv(r) ==
    /\ pc = "connect_wait"
    /\ UNCHANGED <<op, waypoints, mode, i, trace, entry, now, vehVars, master,
                   telemetry, plannerVars>>
    /\ IF r = ReadError
       THEN /\ connected' = FALSE
            /\ Returns("False", EmptyTable)
            /\ UNCHANGED <<last_heartbeat, vehicle_system, vehicle_component, params>>
       ELSE /\ ReadInto(r)
            /\ IF r.kind = "HEARTBEAT"
               THEN /\ connected' = TRUE
                    /\ last_heartbeat' = now
                    /\ vehicle_system' = source_system
                    /\ vehicle_component' = source_component
                    /\ Returns("True", EmptyTable)
               ELSE UNCHANGED <<connected, last_heartbeat, vehicle_system,
                                vehicle_component, pc, result, table>>

\* ------------------------------------------------------- update_telemetry
\* _process_message: a HEARTBEAT refreshes last_heartbeat.
ProcessMessage(last, f) == IF f.kind = "HEARTBEAT" THEN now ELSE last

\* [k for k, v in mode_mapping.items() if v == mode_num], its first element
\* or 'UNKNOWN'.
ModeName(mode_num) ==
    LET names == {k \in DOMAIN mode_mapping : mode_mapping[k] = mode_num}
    IN  IF names = {} THEN "UNKNOWN" ELSE CHOOSE k \in names : TRUE

\* base_mode & MAV_MODE_FLAG_SAFETY_ARMED
Armed(base_mode) == (base_mode \div MAV_MODE_FLAG_SAFETY_ARMED) % 2 = 1

\* Variant: a HEARTBEAT leaves the mode name as it was.
DecodeModeStale(t, f) ==
    IF f.kind = "HEARTBEAT"
    THEN [t EXCEPT !.armed = Armed(f.base_mode), !.timestamp = now]
    ELSE IF f.kind = "GLOBAL_POSITION_INT"
    THEN [t EXCEPT !.latitude = Ratio(f.lat, 10000000),
                   !.longitude = Ratio(f.lon, 10000000),
                   !.altitude = Ratio(f.alt, 1000),
                   !.heading = Ratio(f.hdg, 100)]
    ELSE IF f.kind = "VFR_HUD"
    THEN [t EXCEPT !.groundspeed = f.groundspeed]
    ELSE IF f.kind = "SYS_STATUS"
    THEN [t EXCEPT !.battery_voltage = Ratio(f.voltage_battery, 1000),
                   !.battery_remaining = f.battery_remaining]
    ELSE t

\* _process_message: what the frame f does to the snapshot t.
Decode(t, f) ==
    IF f.kind = "HEARTBEAT"
    THEN [t EXCEPT !.armed = Armed(f.base_mode),
                   !.timestamp = now,
                   !.mode = ModeName(f.custom_mode)]
    ELSE IF f.kind = "GLOBAL_POSITION_INT"
    THEN [t EXCEPT !.latitude = Ratio(f.lat, 10000000),
                   !.longitude = Ratio(f.lon, 10000000),
                   !.altitude = Ratio(f.alt, 1000),
                   !.heading = Ratio(f.hdg, 100)]
    ELSE IF f.kind = "VFR_HUD"
    THEN [t EXCEPT !.groundspeed = f.groundspeed]
    ELSE IF f.kind = "SYS_STATUS"
    THEN [t EXCEPT !.battery_voltage = Ratio(f.voltage_battery, 1000),
                   !.battery_remaining = f.battery_remaining]
    ELSE t

RECURSIVE DecodeAll(_, _)
DecodeAll(t, fs) ==
    IF fs = <<>> THEN t ELSE DecodeAll(Decode(t, Head(fs)), Tail(fs))

RECURSIVE ProcessAll(_, _)
ProcessAll(last, fs) ==
    IF fs = <<>> THEN last ELSE ProcessAll(ProcessMessage(last, Head(fs)), Tail(fs))

\* Variants: the timeout is never declared; it is declared one second late.
HeartbeatNeverTimesOut(last) == FALSE

HeartbeatTimedOutLate(last) == now - last > heartbeat_timeout + 1

\* The heartbeat timeout test of update_telemetry.
HeartbeatTimedOut(last) == now - last > heartbeat_timeout

\* Variant: the heartbeat timeout is tested before the drain.
UpdateTelemetryTimeoutFirst(batch, failed) ==
    /\ pc = "idle"
    /\ op' = "update_telemetry"
    /\ Enter
    /\ trace' = <<>>
    /\ UNCHANGED <<waypoints, mode, i, now, vehVars, master, vehicle_system,
                   vehicle_component, plannerVars>>
    /\ IF ~connected
       THEN /\ Returns("False", EmptyTable)
            /\ UNCHANGED <<connected, last_heartbeat, params, telemetry>>
       ELSE IF HeartbeatTimedOut(last_heartbeat)
       THEN /\ connected' = FALSE
            /\ Returns("False", EmptyTable)
            /\ UNCHANGED <<last_heartbeat, params, telemetry>>
       ELSE /\ last_heartbeat' = ProcessAll(last_heartbeat, batch)
            /\ telemetry' = DecodeAll(telemetry, batch)
            /\ params' = StoreAll(params, batch)
            /\ connected' = ~failed
            /\ Returns(IF failed THEN "False" ELSE "True", EmptyTable)

\* update_telemetry(): drains the frames available (batch), then tests the
\* heartbeat timeout; failed: the read after the batch raised.
UpdateTelemetry(batch, failed) ==
    /\ pc = "idle"
    /\ op' = "update_telemetry"
    /\ Enter
    /\ trace' = <<>>
    /\ UNCHANGED <<waypoints, mode, i, now, vehVars, master, vehicle_system,
                   vehicle_component, plannerVars>>
    /\ IF ~connected
       THEN /\ Returns("False", EmptyTable)
            /\ UNCHANGED <<connected, last_heartbeat, params, telemetry>>
       ELSE /\ last_heartbeat' = ProcessAll(last_heartbeat, batch)
            /\ telemetry' = DecodeAll(telemetry, batch)
            /\ params' = StoreAll(params, batch)
            /\ IF failed
               THEN /\ connected' = FALSE
                    /\ Returns("False", EmptyTable)
               ELSE IF HeartbeatTimedOut(ProcessAll(last_heartbeat, batch))
                    THEN /\ connected' = FALSE
                         /\ Returns("False", EmptyTable)
                    ELSE /\ connected' = TRUE
                         /\ Returns("True", EmptyTable)

\* update_telemetry() with its inputs recorded: the frames drained, whether
\* the read raised, and last_heartbeat as the call found it.
Poll(batch, failed) ==
    /\ UpdateTelemetry(batch, failed)
    /\ polled' = [batch |-> batch, failed |-> failed, last |-> last_heartbeat]
    /\ UNCHANGED hb_seen

\* ------------------------------------------------------ one-frame commands
CommandLong(command, param1) ==
    [kind |-> "COMMAND_LONG", target_system |-> vehicle_system,
     target_component |-> vehicle_component, command |-> command,
     confirmation |-> 0, param1 |-> param1]

\* Variant: set_mode_send's base mode and custom mode exchanged.
SetModeFrameSwapped(mode_id) ==
    [kind |-> "SET_MODE", target_system |-> vehicle_system,
     base_mode |-> mode_id, custom_mode |-> MAV_MODE_FLAG_CUSTOM_MODE_ENABLED]

SetModeFrame(mode_id) ==
    [kind |-> "SET_MODE", target_system |-> vehicle_system,
     base_mode |-> MAV_MODE_FLAG_CUSTOM_MODE_ENABLED, custom_mode |-> mode_id]

ParamSetFrame(name, value) ==
    [kind |-> "PARAM_SET", param_id |-> name, param_value |-> value,
     param_type |-> MAV_PARAM_TYPE_REAL32]

\* Variant: a send that raises is tried once more.
SendOneRetry(name, f, sent) ==
    /\ pc = "idle"
    /\ op' = name
    /\ Enter
    /\ UNCHANGED <<handlerVars, now, vehVars, waypoints, mode, i, plannerVars,
                   observerVars>>
    /\ IF ~connected
       THEN /\ trace' = <<>>
            /\ Returns("False", EmptyTable)
       ELSE /\ trace' = IF sent THEN <<Tx(f, TRUE)>> ELSE <<Tx(f, FALSE), Tx(f, TRUE)>>
            /\ Returns("True", EmptyTable)

\* The shape arm, disarm, start_mission and set_parameter share: not
\* connected: False; else one send, True unless the send raises.
SendOne(name, f, sent) ==
    /\ pc = "idle"
    /\ op' = name
    /\ Enter
    /\ UNCHANGED <<handlerVars, now, vehVars, waypoints, mode, i, plannerVars,
                   observerVars>>
    /\ IF ~connected
       THEN /\ trace' = <<>>
            /\ Returns("False", EmptyTable)
       ELSE /\ trace' = <<Tx(f, sent)>>
            /\ Returns(IF sent THEN "True" ELSE "False", EmptyTable)

Arm(sent) == SendOne("arm", CommandLong(MAV_CMD_COMPONENT_ARM_DISARM, 1), sent)

Disarm(sent) == SendOne("disarm", CommandLong(MAV_CMD_COMPONENT_ARM_DISARM, 0), sent)

StartMission(sent) == SendOne("start_mission", CommandLong(MAV_CMD_MISSION_START, 0), sent)

SetParameter(name, value, sent) ==
    SendOne("set_parameter", ParamSetFrame(name, value), sent)

\* `mode in mode_mapping`
KnownMode(m) == m \in DOMAIN mode_mapping

\* set_mode(m): an unknown name returns False before anything is sent.
SetMode(m, sent) ==
    /\ pc = "idle"
    /\ op' = "set_mode"
    /\ mode' = m
    /\ Enter
    /\ UNCHANGED <<handlerVars, now, vehVars, waypoints, i, plannerVars,
                   observerVars>>
    /\ IF ~connected
       THEN /\ trace' = <<>>
            /\ Returns("False", EmptyTable)
       ELSE IF ~KnownMode(m)
            THEN /\ trace' = <<>>
                 /\ Returns("False", EmptyTable)
            ELSE /\ trace' = <<Tx(SetModeFrame(mode_mapping[m]), sent)>>
                 /\ Returns(IF sent THEN "True" ELSE "False", EmptyTable)

\* Variant: close() closes the transport and leaves connected as it is.
CloseKeepsConnected ==
    /\ pc = "idle"
    /\ op' = "close"
    /\ Enter
    /\ trace' = <<>>
    /\ master' = IF master = "none" THEN "none" ELSE "closed"
    /\ Returns("none", EmptyTable)
    /\ UNCHANGED <<connected, last_heartbeat, vehicle_system, vehicle_component,
                   params, telemetry, now, vehVars, waypoints, mode, i,
                   plannerVars, observerVars>>

\* close(): closes the transport if there is one; connected becomes False.
Close ==
    /\ pc = "idle"
    /\ op' = "close"
    /\ Enter
    /\ trace' = <<>>
    /\ master' = IF master = "none" THEN "none" ELSE "closed"
    /\ connected' = FALSE
    /\ Returns("none", EmptyTable)
    /\ UNCHANGED <<last_heartbeat, vehicle_system, vehicle_component, params,
                   telemetry, now, vehVars, waypoints, mode, i, plannerVars,
                   observerVars>>

\* --------------------------------------------------------- upload_mission
MissionClearAll ==
    [kind |-> "MISSION_CLEAR_ALL", target_system |-> vehicle_system,
     target_component |-> vehicle_component]

MissionCount(count) ==
    [kind |-> "MISSION_COUNT", target_system |-> vehicle_system,
     target_component |-> vehicle_component, count |-> count, mission_type |-> 0]

\* The codec's mission_item_send: its positional arguments, in the order of
\* the message's fields (mission_type defaults to 0).
mission_item_send(a) ==
    [kind |-> "MISSION_ITEM", target_system |-> a[1], target_component |-> a[2],
     seq |-> a[3], frame |-> a[4], command |-> a[5], current |-> a[6],
     autocontinue |-> a[7], param1 |-> a[8], param2 |-> a[9], param3 |-> a[10],
     param4 |-> a[11], x |-> a[12], y |-> a[13], z |-> a[14],
     mission_type |-> IF Len(a) >= 15 THEN a[15] ELSE 0]

\* Variant: every item is numbered 0.
ItemSeqZero(idx) == 0

\* The sequence number upload_mission gives the item of loop index idx.
ItemSeq(idx) == idx

\* The arguments upload_mission passes for the waypoint wp at loop index idx.
ItemArgs(idx, wp) ==
    <<vehicle_system, vehicle_component,
      ItemSeq(idx),
      Get(wp, "frame", MAV_FRAME_GLOBAL_RELATIVE_ALT),
      MAV_CMD_NAV_WAYPOINT,
      0,
      IF idx = 0 THEN 1 ELSE 0,
      Get(wp, "p1", 0), Get(wp, "p2", 0), Get(wp, "p3", 0),
      Get(wp, "x", 0),
      Get(wp, "y", 0),
      Get(wp, "z", 10),
      MAV_MISSION_TYPE_MISSION>>

MissionItem(idx, wp) == mission_item_send(ItemArgs(idx, wp))

\* Variant: the wait after the clear takes the item loop's filter.
ClearWaitMatchesRequests(f) == f.kind \in {"MISSION_REQUEST", "MISSION_ACK"}

\* recv_match(type='MISSION_ACK'): the frames the wait after the clear returns.
ClearWaitMatches(f) == f.kind = "MISSION_ACK"

\* recv_match(type='MISSION_REQUEST') and the test that ends the first wait.
RequestWaitMatches(f) == f.kind = "MISSION_REQUEST"

AddressedToStation(f) ==
    /\ f.target_system = source_system
    /\ f.target_component = source_component

\* recv_match(type=['MISSION_REQUEST', 'MISSION_ACK']) in the item loop.
ItemWaitMatches(f) == f.kind \in {"MISSION_REQUEST", "MISSION_ACK"}

\* The reply that ends the item loop early.
EndsItemLoop(f) == f.kind = "MISSION_ACK"

\* upload_mission(wps), up to the wait for the acknowledgment of the clear.
UploadMission(wps, sent) ==
    /\ pc = "idle"
    /\ op' = "upload_mission"
    /\ waypoints' = wps
    /\ Enter
    /\ UNCHANGED <<handlerVars, now, vehVars, mode, i, plannerVars, observerVars>>
    /\ IF ~connected
       THEN /\ trace' = <<>>
            /\ Returns("False", EmptyTable)
       ELSE /\ trace' = <<Tx(MissionClearAll, sent)>>
            /\ IF sent
               THEN /\ pc' = "clear_wait"
                    /\ UNCHANGED <<result, table>>
               ELSE Returns("False", EmptyTable)

\* The call fails on a raised exception (a read error).
UploadRaises ==
    /\ Returns("False", EmptyTable)
    /\ UNCHANGED <<trace, i, params>>

\* The wait for the acknowledgment of the clear reads r; the acknowledgment
\* is followed by the mission count.
ClearRecv(r, sent) ==
    /\ pc = "clear_wait"
    /\ UNCHANGED <<op, waypoints, mode, entry, now, vehVars, connected,
                   last_heartbeat, master, vehicle_system, vehicle_component,
                   telemetry, plannerVars>>
    /\ IF r = ReadError
       THEN UploadRaises
       ELSE /\ ReadInto(r)
            /\ i' = i
            /\ IF ClearWaitMatches(r)
               THEN /\ trace' = trace \o <<Rx(r), Tx(MissionCount(Len(waypoints)), sent)>>
                    /\ IF sent
                       THEN /\ pc' = "request_wait"
                            /\ UNCHANGED <<result, table>>
                       ELSE Returns("False", EmptyTable)
               ELSE UNCHANGED <<pc, result, table, trace>>

\* The for loop reaches index idx after the events tr: it sends that item
\* and waits, or, past the last waypoint, the call returns True.
LoopAt(idx, tr, sent) ==
    IF idx < Len(waypoints)
    THEN /\ trace' = Append(tr, Tx(MissionItem(idx, waypoints[idx + 1]), sent))
         /\ i' = idx
         /\ IF sent
            THEN /\ pc' = "item_wait"
                 /\ UNCHANGED <<result, table>>
            ELSE Returns("False", EmptyTable)
    ELSE /\ trace' = tr
         /\ i' = i
         /\ Returns("True", EmptyTable)

\* The wait for the vehicle's first item request reads r; requests addressed
\* to another station are read and dropped.
RequestRecv(r, sent) ==
    /\ pc = "request_wait"
    /\ UNCHANGED <<op, waypoints, mode, entry, now, vehVars, connected,
                   last_heartbeat, master, vehicle_system, vehicle_component,
                   telemetry, plannerVars>>
    /\ IF r = ReadError
       THEN UploadRaises
       ELSE /\ ReadInto(r)
            /\ IF RequestWaitMatches(r) /\ AddressedToStation(r)
               THEN LoopAt(0, Append(trace, Rx(r)), sent)
               ELSE UNCHANGED <<pc, result, table, trace, i>>

\* The wait after an item reads r: an acknowledgment ends the loop, a
\* request moves it to the next index.
ItemRecv(r, sent) ==
    /\ pc = "item_wait"
    /\ UNCHANGED <<op, waypoints, mode, entry, now, vehVars, connected,
                   last_heartbeat, master, vehicle_system, vehicle_component,
                   telemetry, plannerVars>>
    /\ IF r = ReadError
       THEN UploadRaises
       ELSE /\ ReadInto(r)
            /\ IF ~ItemWaitMatches(r)
               THEN UNCHANGED <<pc, result, table, trace, i>>
               ELSE IF EndsItemLoop(r)
                    THEN /\ trace' = Append(trace, Rx(r))
                         /\ i' = i
                         /\ Returns("True", EmptyTable)
                    ELSE LoopAt(i + 1, Append(trace, Rx(r)), sent)

\* --------------------------------------------------------- get_parameters
ParamRequestList == [kind |-> "PARAM_REQUEST_LIST"]

\* recv_match(type=['PARAM_VALUE', 'PARAM_EXT_VALUE'])
ParamWaitMatches(f) == f.kind \in {"PARAM_VALUE", "PARAM_EXT_VALUE"}

\* Variant: the wait ends on the frame of index 0.
IsLastParamAtFirst(f) ==
    /\ f.kind = "PARAM_VALUE"
    /\ f.param_count > 0
    /\ f.param_index = 0

\* Variant: no frame ends the wait.
IsLastParamNever(f) == FALSE

\* The frame that ends the wait: a PARAM_VALUE whose index is its count - 1.
IsLastParam(f) ==
    /\ f.kind = "PARAM_VALUE"
    /\ f.param_count > 0
    /\ f.param_index = f.param_count - 1

\* get_parameters(), up to the wait for parameter values.  Not connected, or
\* the request cannot be sent: it returns {}.
GetParameters(sent) ==
    /\ pc = "idle"
    /\ op' = "get_parameters"
    /\ entry' = [connected |-> connected, cache |-> params]
    /\ UNCHANGED <<handlerVars, now, waypoints, mode, i, plannerVars, observerVars>>
    /\ IF ~connected
       THEN /\ trace' = <<>>
            /\ Returns("dict", EmptyTable)
       ELSE /\ trace' = <<Tx(ParamRequestList, sent)>>
            /\ IF sent
               THEN /\ pc' = "param_wait"
                    /\ UNCHANGED <<result, table>>
               ELSE Returns("dict", EmptyTable)

\* The wait for parameter values reads r; on the last one self.parameters
\* is bound to the link's cache (the same object, so it needs no variable of
\* its own) and a copy of the cache is returned.
ParamRecv(r) ==
    /\ pc = "param_wait"
    /\ UNCHANGED <<op, waypoints, mode, i, trace, entry, now, connected,
                   last_heartbeat, master, vehicle_system, vehicle_component,
                   telemetry, plannerVars>>
    /\ IF r = ReadError
       THEN /\ Returns("dict", EmptyTable)
            /\ UNCHANGED <<params>>
       ELSE /\ ReadInto(r)
            /\ IF ParamWaitMatches(r) /\ IsLastParam(r)
               THEN Returns("dict", StoreParam(params, r))
               ELSE UNCHANGED <<pc, result, table>>

\* ------------------------------------------------------ the mission planner
\* The names bound in mission_planner.py's module namespace: its imports and
\* its own definitions.
PlannerGlobals ==
    {"json", "logging", "Path", "Dict", "List", "Optional", "Any", "Union",
     "dataclass", "asdict", "time", "logger", "Waypoint", "MissionPlanner"}

\* Waypoint(latitude, longitude, altitude, ...): the dataclass, of a type.
WaypointOf(type) ==
    [latitude |-> 47, longitude |-> 8, altitude |-> 50, speed |-> 5,
     hold_time |-> 30, accept_radius |-> 5, pass_radius |-> 2, yaw_angle |-> 90,
     waypoint_type |-> type, autocontinue |-> (type # "LOITER_TIME")]

WaypointTypes == {"WAYPOINT", "TAKEOFF", "LOITER_TIME"}

Waypoints == {WaypointOf(type) : type \in WaypointTypes}

\* The command the planner's loop chooses for a waypoint type.
CommandOf(type) ==
    IF type = "TAKEOFF" THEN MAV_CMD_NAV_TAKEOFF
    ELSE IF type = "LAND" THEN MAV_CMD_NAV_LAND
    ELSE IF type = "RETURN_TO_LAUNCH" THEN MAV_CMD_NAV_RETURN_TO_LAUNCH
    ELSE IF type = "LOITER_TIME" THEN MAV_CMD_NAV_LOITER_TIME
    ELSE MAV_CMD_NAV_WAYPOINT

\* The dictionary the planner's loop builds for the waypoint wp.
MavWp(wp) ==
    [x |-> wp.latitude, y |-> wp.longitude, z |-> wp.altitude,
     p1 |-> IF wp.waypoint_type = "LOITER_TIME" THEN wp.hold_time ELSE wp.speed,
     p2 |-> wp.accept_radius, p3 |-> wp.pass_radius, p4 |-> wp.yaw_angle,
     frame |-> 3,
     autocontinue |-> IF wp.autocontinue THEN 1 ELSE 0,
     command |-> CommandOf(wp.waypoint_type)]

MavWaypoints(wps) == [k \in 1..Len(wps) |-> MavWp(wps[k])]

\* A planner operation that touches no handler state returns res.
PlannerReturns(name, res) ==
    /\ pc = "idle"
    /\ op' = name
    /\ Enter
    /\ trace' = <<>>
    /\ Returns(res, EmptyTable)
    /\ UNCHANGED <<handlerVars, now, vehVars, waypoints, mode, i, observerVars>>

\* add_waypoint(wp): appends and returns the new waypoint's index.
AddWaypoint(wp) ==
    /\ Len(planner_waypoints) < MaxWp
    /\ planner_waypoints' = Append(planner_waypoints, wp)
    /\ edit_args' = <<wp>>
    /\ UNCHANGED current_mission
    /\ PlannerReturns("add_waypoint", ToString(Len(planner_waypoints)))

\* Variant: list.insert that appends whatever the index.
InsertAtEnd(s, index, x) == Append(s, x)

\* list.insert(index, x), for 0 <= index <= len(s).
InsertAt(s, index, x) ==
    SubSeq(s, 1, index) \o <<x>> \o SubSeq(s, index + 1, Len(s))

\* list.pop(index), for 0 <= index < len(s): the list that remains.
RemoveAt(s, index) ==
    SubSeq(s, 1, index) \o SubSeq(s, index + 2, Len(s))

\* insert_waypoint(index, wp)
InsertWaypoint(index, wp) ==
    /\ Len(planner_waypoints) < MaxMission
    /\ edit_args' = <<index, wp>>
    /\ UNCHANGED current_mission
    /\ IF 0 <= index /\ index <= Len(planner_waypoints)
       THEN /\ planner_waypoints' = InsertAt(planner_waypoints, index, wp)
            /\ PlannerReturns("insert_waypoint", "True")
       ELSE /\ UNCHANGED planner_waypoints
            /\ PlannerReturns("insert_waypoint", "False")

\* remove_waypoint(index)
RemoveWaypoint(index) ==
    /\ edit_args' = <<index>>
    /\ UNCHANGED current_mission
    /\ IF 0 <= index /\ index < Len(planner_waypoints)
       THEN /\ planner_waypoints' = RemoveAt(planner_waypoints, index)
            /\ PlannerReturns("remove_waypoint", "True")
       ELSE /\ UNCHANGED planner_waypoints
            /\ PlannerReturns("remove_waypoint", "False")

\* clear_mission()
ClearMission ==
    /\ planner_waypoints' = <<>>
    /\ edit_args' = <<>>
    /\ UNCHANGED current_mission
    /\ PlannerReturns("clear_mission", "none")

\* The names create_new_mission is called with ("": None or the empty string).
MissionNames == {"", "m1"}

\* create_new_mission(name): empties the list, names the mission (after the
\* clock when no name is given) and returns the name.
CreateNewMission(name) ==
    /\ planner_waypoints' = <<>>
    /\ current_mission' = IF name # "" THEN name ELSE "mission_" \o ToString(now)
    /\ edit_args' = <<>>
    /\ PlannerReturns("create_new_mission", current_mission')

\* The Waypoint dataclass: the fields without a default, and the defaults.
WaypointRequired == {"latitude", "longitude", "altitude"}
WaypointDefaults ==
    [speed |-> 0, hold_time |-> 0, accept_radius |-> 5, pass_radius |-> 2,
     yaw_angle |-> 0, waypoint_type |-> "WAYPOINT", autocontinue |-> TRUE]
WaypointFields == WaypointRequired \cup DOMAIN WaypointDefaults

\* Waypoint.from_dict(data) raises: a field without default is missing, or a
\* key is not a field.
FromDictRaises(data) ==
    ~(WaypointRequired \subseteq DOMAIN data /\ DOMAIN data \subseteq WaypointFields)

\* Waypoint.from_dict(data) == Waypoint(**data)
FromDict(data) ==
    [k \in WaypointFields |-> IF k \in DOMAIN data THEN data[k] ELSE WaypointDefaults[k]]

\* The waypoint entries a mission file may hold: as to_dict writes them, with
\* only the fields that have no default, and without a field that has none.
FileWaypoints ==
    {WaypointOf("WAYPOINT"), WaypointOf("RETURN_TO_LAUNCH"),
     [latitude |-> 13, longitude |-> 8, altitude |-> 50],
     [latitude |-> 1]}

\* What load_mission may find at the path: no readable JSON object, an empty
\* object, or a mission of up to MaxMission entries.
NoFile == [kind |-> "unreadable"]
EmptyObject == [n \in {} |-> 0]
MissionFiles ==
    {NoFile, [kind |-> "json", data |-> EmptyObject]}
        \cup {[kind |-> "json", data |-> [name |-> "f1", waypoints |-> ws]] :
                ws \in SeqsUpTo(FileWaypoints, MaxMission)}

\* load_mission(filename), file being what the disk holds at the path: a
\* failure to open or parse returns False; otherwise the mission name is
\* taken, then every entry is converted, and one that cannot be leaves the
\* list as it was and returns False.
LoadMission(file) ==
    /\ edit_args' = <<>>
    /\ IF file.kind = "unreadable"
       THEN /\ UNCHANGED <<planner_waypoints, current_mission>>
            /\ PlannerReturns("load_mission", "False")
       ELSE LET entries == Get(file.data, "waypoints", <<>>)
            IN  /\ current_mission' = Get(file.data, "name", "")
                /\ IF \E k \in 1..Len(entries) : FromDictRaises(entries[k])
                   THEN /\ UNCHANGED planner_waypoints
                        /\ PlannerReturns("load_mission", "False")
                   ELSE /\ planner_waypoints' =
                            [k \in 1..Len(entries) |-> FromDict(entries[k])]
                        /\ PlannerReturns("load_mission", "True")

\* upload_mission_to_vehicle(): an empty mission returns False; otherwise the
\* loop over the waypoints evaluates the name mavutil, then hands the
\* dictionaries to the handler's upload_mission.
UploadMissionToVehicle(sent) ==
    IF planner_waypoints = <<>>
    THEN /\ PlannerReturns("upload_mission_to_vehicle", "False")
         /\ UNCHANGED plannerVars
    ELSE IF "mavutil" \notin PlannerGlobals
    THEN /\ PlannerReturns("upload_mission_to_vehicle", "raise")
         /\ UNCHANGED plannerVars
    ELSE UploadMission(MavWaypoints(planner_waypoints), sent)

\* ------------------------------------------------------------ the vehicle
\* Telemetry the vehicle sends on its own at any time.
Noise == {Heartbeat, OtherFrame}

\* The index the vehicle expects next, after the item frames fs reached it.
RECURSIVE Expected(_, _)
Expected(e, fs) ==
    IF fs = <<>> THEN e
    ELSE Expected(IF Head(fs).f.seq = e THEN e + 1 ELSE e, Tail(fs))

ItemsOf(tr) == SelectSeq(SentFrames(tr), LAMBDA e : e.f.kind = "MISSION_ITEM")

CountsOf(tr) == SelectSeq(SentFrames(tr), LAMBDA e : e.f.kind = "MISSION_COUNT")

\* A vehicle that follows the mission protocol answers the station's last
\* frame: the clear with an acknowledgment, the count with the request for
\* item 0, an item with the request for the next one it expects, or with
\* the final acknowledgment.
ProtocolReply ==
    IF trace = <<>> \/ op # "upload_mission" THEN {}
    ELSE LET e == trace[Len(trace)]
             next == Expected(0, ItemsOf(trace))
         IN  IF e.dir # "tx" \/ ~e.ok THEN {}
             ELSE IF e.f.kind = "MISSION_CLEAR_ALL" THEN {MissionAck}
             ELSE IF e.f.kind = "MISSION_COUNT"
                  THEN IF e.f.count > 0
                       THEN {MissionRequest(0, source_system, source_component)}
                       ELSE {MissionAck}
             ELSE IF e.f.kind = "MISSION_ITEM"
                  THEN IF next < CountsOf(trace)[1].f.count
                       THEN {MissionRequest(next, source_system, source_component)}
                       ELSE {MissionAck}
             ELSE {}

ProtocolReads == Noise \cup ProtocolReply \cup {ReadError}

\* The vehicle takes a parameter-list request: it will report count
\* parameters and deliver one value frame for each index.
VehicleListsParams(count) ==
    IF pc' = "param_wait"
    THEN vehCount' = count /\ vehPending' = 0..(count - 1)
    ELSE UNCHANGED vehVars

\* The vehicle delivers the value frame of a pending index, in any order.
VehicleSendsParam(idx, val) ==
    /\ idx \in vehPending
    /\ ParamRecv(ParamValue(idx, vehCount, val))
    /\ vehPending' = vehPending \ {idx}
    /\ vehCount' = vehCount
    /\ Unobserved

\* ------------------------------------------------------------- next state
Commands ==
    \E sent \in BOOLEAN :
        \/ Arm(sent)
        \/ Disarm(sent)
        \/ StartMission(sent)
        \/ \E m \in ModeNames : SetMode(m, sent)
        \/ \E idx \in 0..(MaxParams - 1), v \in ParamValues :
                SetParameter(ParamName(idx), v, sent)

LinkOps ==
    \/ Return
    \/ Tick
    \/ Close
    \/ \E opened \in BOOLEAN : Connect(opened)
    \/ \E b \in Batches, failed \in BOOLEAN : UpdateTelemetry(b, failed) /\ Unobserved

\* Any vehicle: every receive may get any frame.
Next ==
    \/ LinkOps
    \/ Commands
    \/ \E r \in Reads : ConnectRecv(r) /\ Unobserved
    \/ \E wps \in WaypointLists, sent \in BOOLEAN : UploadMission(wps, sent)
    \/ \E r \in Reads, sent \in BOOLEAN : ClearRecv(r, sent) /\ Unobserved
    \/ \E r \in Reads, sent \in BOOLEAN : RequestRecv(r, sent) /\ Unobserved
    \/ \E r \in ItemReads, sent \in BOOLEAN : ItemRecv(r, sent) /\ Unobserved
    \/ \E sent \in BOOLEAN : GetParameters(sent) /\ UNCHANGED vehVars
    \/ \E r \in Reads : ParamRecv(r) /\ UNCHANGED vehVars /\ Unobserved

Spec == Init /\ [][Next]_vars

\* A vehicle that follows the mission and parameter protocols.
NextProtocol ==
    \/ LinkOps
    \/ Commands
    \/ \E r \in Reads : ConnectRecv(r) /\ Unobserved
    \/ \E wps \in WaypointLists, sent \in BOOLEAN : UploadMission(wps, sent)
    \/ \E r \in ProtocolReads, sent \in BOOLEAN : ClearRecv(r, sent) /\ Unobserved
    \/ \E r \in ProtocolReads, sent \in BOOLEAN : RequestRecv(r, sent) /\ Unobserved
    \/ \E r \in ProtocolReads, sent \in BOOLEAN : ItemRecv(r, sent) /\ Unobserved
    \/ \E sent \in BOOLEAN, count \in 1..MaxCount :
            GetParameters(sent) /\ VehicleListsParams(count)
    \/ \E idx \in 0..(MaxCount - 1), val \in ParamValues : VehicleSendsParam(idx, val)
    \/ \E r \in Noise \cup {ReadError} : ParamRecv(r) /\ UNCHANGED vehVars /\ Unobserved

SpecProtocol == Init /\ [][NextProtocol]_vars

\* The mission planner on a handler that is connected or not.
NextPlanner ==
    \/ Return
    \/ Close
    \/ \E opened \in BOOLEAN : Connect(opened)
    \/ \E r \in {Heartbeat, ReadError} : ConnectRecv(r) /\ Unobserved
    \/ \E wp \in Waypoints : AddWaypoint(wp)
    \/ ClearMission
    \/ \E name \in MissionNames : CreateNewMission(name)
    \/ \E file \in MissionFiles : LoadMission(file)
    \/ \E sent \in BOOLEAN : UploadMissionToVehicle(sent)

SpecPlanner == Init /\ [][NextPlanner]_vars

\* The indices tried for insert and remove: every valid one, and one beyond
\* the list on either side.
EditIndices == (0 - 1)..(MaxMission + 1)

\* A caller editing the planner's waypoint list.
NextEditing ==
    \/ Return
    \/ \E wp \in Waypoints : AddWaypoint(wp)
    \/ \E index \in EditIndices, wp \in Waypoints : InsertWaypoint(index, wp)
    \/ \E index \in EditIndices : RemoveWaypoint(index)
    \/ ClearMission
    \/ \E name \in MissionNames : CreateNewMission(name)
    \/ \E file \in MissionFiles : LoadMission(file)

SpecEditing == Init /\ [][NextEditing]_vars

\* The link and the telemetry decoder: polls that drain telemetry frames.
TelemetryBatches == SeqsUpTo(TelemetryFrames, MaxBatch)

NextTelemetry ==
    \/ Return
    \/ Tick
    \/ Close
    \/ \E opened \in BOOLEAN : Connect(opened)
    \/ \E r \in {Heartbeat, ReadError} : ConnectRecv(r) /\ Unobserved
    \/ \E b \in TelemetryBatches, failed \in BOOLEAN : Poll(b, failed)

SpecTelemetry == Init /\ [][NextTelemetry]_vars

\* ---------------------------------------------- handshakes under observation
\* The observer of heartbeats: the receive got r from the transport.
Sees(r) ==
    /\ hb_seen' = IF r.kind = "HEARTBEAT" THEN now ELSE hb_seen
    /\ polled' = polled

\* The observer of heartbeats in a poll: the frames of a batch are read only
\* if the poll finds the link connected.
SeesAll(batch) ==
    hb_seen' = IF connected /\ \E k \in 1..Len(batch) : batch[k].kind = "HEARTBEAT"
               THEN now ELSE hb_seen

PollSeen(batch, failed) ==
    /\ UpdateTelemetry(batch, failed)
    /\ polled' = [batch |-> batch, failed |-> failed, last |-> last_heartbeat]
    /\ SeesAll(batch)

\* What a receive of a handshake may get: a heartbeat, a frame the station
\* waits for at some step, a frame it waits for at no step, or a read error.
HandshakeReads ==
    {Heartbeat, MissionAck, ParamExtValue,
     MissionRequest(0, source_system, source_component),
     ParamValue(MaxParams - 1, MaxParams, CHOOSE v \in ParamValues : TRUE),
     ReadError}

\* The frame the station is waiting for arrives.
AwaitedArrives ==
    \E sent \in BOOLEAN :
        \/ ClearRecv(MissionAck, sent) /\ Sees(MissionAck)
        \/ \E r \in {MissionRequest(0, source_system, source_component)} :
                RequestRecv(r, sent) /\ Sees(r)
        \/ \E r \in {MissionRequest(0, source_system, source_component), MissionAck} :
                ItemRecv(r, sent) /\ Sees(r)
        \/ \E r \in {ParamValue(MaxParams - 1, MaxParams, CHOOSE v \in ParamValues : TRUE)} :
                ParamRecv(r) /\ UNCHANGED vehVars /\ Sees(r)

HeartbeatBatches == SeqsUpTo({Heartbeat}, MaxBatch)

NextHandshake ==
    \/ Return
    \/ Tick
    \/ \E opened \in BOOLEAN : Connect(opened)
    \/ \E r \in {Heartbeat, ReadError} : ConnectRecv(r) /\ Sees(r)
    \/ \E b \in HeartbeatBatches, failed \in BOOLEAN : PollSeen(b, failed)
    \/ \E wps \in WaypointLists, sent \in BOOLEAN : UploadMission(wps, sent)
    \/ \E r \in HandshakeReads, sent \in BOOLEAN : ClearRecv(r, sent) /\ Sees(r)
    \/ \E r \in HandshakeReads, sent \in BOOLEAN : RequestRecv(r, sent) /\ Sees(r)
    \/ \E r \in HandshakeReads, sent \in BOOLEAN : ItemRecv(r, sent) /\ Sees(r)
    \/ \E sent \in BOOLEAN : GetParameters(sent) /\ UNCHANGED vehVars
    \/ \E r \in HandshakeReads : ParamRecv(r) /\ UNCHANGED vehVars /\ Sees(r)

SpecHandshake == Init /\ [][NextHandshake]_vars

\* The vehicle eventually delivers each frame the station is waiting for.
SpecHandshakeFair == SpecHandshake /\ WF_vars(AwaitedArrives)

\* ================================================================= claims
Returned(name) == pc = "returned" /\ op = name

IsTx(e, kind) == e.dir = "tx" /\ e.f.kind = kind

IsRx(e, kind) == e.dir = "rx" /\ e.f.kind = kind

RequestsOf(tr) == SelectSeq(tr, LAMBDA e : IsRx(e, "MISSION_REQUEST"))

\* The number of events of tr after its position k that are received
\* mission acknowledgments.
AcksAfter(tr, k) ==
    Cardinality({j \in (k + 1)..Len(tr) : IsRx(tr[j], "MISSION_ACK")})

\* The position of the last item sent in tr (0: none).
LastItemAt(tr) ==
    LET at == {k \in 1..Len(tr) : IsTx(tr[k], "MISSION_ITEM") /\ tr[k].ok}
    IN  IF at = {} THEN 0 ELSE CHOOSE k \in at : \A j \in at : j <= k

\* C1: with a vehicle that follows the mission protocol, an upload of N >= 1
\* waypoints that returns success has taken N item requests, each answered
\* by one item; the items sent carry the sequence numbers 0, 1, ..., N-1 in
\* that order, each once; and after the last item exactly one mission
\* acknowledgment was received, as the last event of the call.
C1_UploadRoundTrips ==
    (Returned("upload_mission") /\ result = "True" /\ Len(waypoints) >= 1) =>
        LET N == Len(waypoints)
            items == ItemsOf(trace)
            reqs == RequestsOf(trace)
        IN  /\ Len(items) = N
            /\ \A k \in 1..N : items[k].f.seq = k - 1
            /\ Len(reqs) = N
            /\ \A k \in 1..N : reqs[k].f.seq = k - 1
            /\ Len(SendAttempts(trace)) = N + 2
            /\ IsRx(trace[Len(trace)], "MISSION_ACK")
            /\ AcksAfter(trace, LastItemAt(trace)) = 1
            /\ LastItemAt(trace) = Len(trace) - 1

\* C1 witness: an upload of two waypoints has returned success.
C1_Witness ==
    /\ Returned("upload_mission")
    /\ result = "True"
    /\ Len(waypoints) = 2
    /\ Len(ItemsOf(trace)) = 2

\* C2 (as claimed): an upload called with an empty waypoint list, or while
\* not connected, returns failure at once and hands no frame to the transport.
C2_EmptyOrDisconnectedSendsNothing ==
    (op = "upload_mission" /\ (waypoints = <<>> \/ ~entry.connected)) =>
        /\ pc = "returned"
        /\ result = "False"
        /\ trace = <<>>

\* C3: a poll that finds the link connected and, after draining, the last
\* heartbeat more than heartbeat_timeout old sets connected to false and
\* returns failure; a poll that finds the link not connected returns failure,
\* reads nothing and leaves it not connected, whatever frames are available;
\* and connected goes from false to true only by a connect that succeeds.
C3_TimeoutDisconnectsOnce ==
    [][ /\ (pc = "idle" /\ op' = "update_telemetry" /\ connected
                /\ now - last_heartbeat' > heartbeat_timeout)
            => (~connected' /\ result' = "False")
        /\ (pc = "idle" /\ op' = "update_telemetry" /\ ~connected)
            => (~connected' /\ result' = "False" /\ last_heartbeat' = last_heartbeat)
        /\ (~connected /\ connected')
            => (op = "connect" /\ pc' = "returned" /\ result' = "True")
      ]_vars

\* C3 witness: a poll found the link connected, declared the timeout and
\* returned failure.
C3_Witness ==
    /\ Returned("update_telemetry")
    /\ entry.connected
    /\ ~connected
    /\ result = "False"
    /\ now - last_heartbeat > heartbeat_timeout

\* C4 (as claimed): in every state, connected implies that the last heartbeat
\* is at most heartbeat_timeout old.
C4_ConnectedImpliesFresh ==
    connected => now - last_heartbeat <= heartbeat_timeout

\* C4 (amended): when connect or a poll returns success, the link is
\* connected and the last heartbeat is at most heartbeat_timeout old.
C4_FreshWhenPollSucceeds ==
    ((Returned("update_telemetry") \/ Returned("connect")) /\ result = "True") =>
        (connected /\ now - last_heartbeat <= heartbeat_timeout)

\* C4 witness: a poll returned success with the last heartbeat exactly
\* heartbeat_timeout old.
C4_Witness ==
    /\ Returned("update_telemetry")
    /\ result = "True"
    /\ now - last_heartbeat = heartbeat_timeout

\* C5: set_mode with a name that is not in the mode table returns failure
\* and sends nothing, connected or not; with a name of the table on a
\* connected link it makes exactly one send, of a set-mode frame that
\* carries the name's numeric id.
C5_SetModeUnknownSendsNothing ==
    Returned("set_mode") =>
        /\ mode \notin DOMAIN mode_mapping => (result = "False" /\ trace = <<>>)
        /\ (mode \in DOMAIN mode_mapping /\ entry.connected) =>
              /\ Len(trace) = 1
              /\ IsTx(trace[1], "SET_MODE")
              /\ trace[1].f.custom_mode = mode_mapping[mode]
              /\ trace[1].f.base_mode = MAV_MODE_FLAG_CUSTOM_MODE_ENABLED

\* C5 witness: set_mode("UNKNOWN_MODE") has returned on a connected link.
C5_Witness ==
    /\ Returned("set_mode")
    /\ mode = "UNKNOWN_MODE"
    /\ entry.connected

\* get_parameters has returned on the frame of index count - 1.
FetchCompleted ==
    /\ Returned("get_parameters")
    /\ vehCount > 0
    /\ (vehCount - 1) \notin vehPending

\* The names of the value frames the vehicle has delivered.
DeliveredNames == {ParamName(idx) : idx \in (0..(vehCount - 1)) \ vehPending}

\* C6 (as claimed): with a vehicle that reports count N and delivers one
\* value frame per index in any order, the table get_parameters returns has
\* exactly N entries.
C6_AllParamsAnyOrder ==
    FetchCompleted => Cardinality(DOMAIN table) = vehCount

\* C6 (amended): get_parameters keeps waiting until the frame of index N-1
\* arrives and returns on it; the table returned holds the names the cache
\* held before the call and the names of the frames that arrived up to that
\* frame, each with its value; so it has exactly N entries when the frame of
\* index N-1 is the last of the N to arrive and the cache held no other name.
C6_FetchReturnsFramesUpToLast ==
    /\ pc = "param_wait" => (vehCount - 1) \in vehPending
    /\ FetchCompleted =>
          /\ DOMAIN table = DOMAIN entry.cache \cup DeliveredNames
          /\ \A n \in DeliveredNames : table[n] \in ParamValues
          /\ (vehPending = {} /\ DOMAIN entry.cache \subseteq DeliveredNames)
                => Cardinality(DOMAIN table) = vehCount

\* C6 witness: count 3, all three frames delivered, the frame of index 2
\* last, and a table of three entries returned.
C6_Witness ==
    /\ FetchCompleted
    /\ vehCount = 3
    /\ vehPending = {}
    /\ Cardinality(DOMAIN table) = 3

FireAndForget == {"arm", "disarm", "set_mode", "start_mission", "set_parameter"}

\* C7: arm, disarm, set_mode with a known mode, start_mission and
\* set_parameter make exactly one send on a connected link and return success
\* exactly when that send did not fail; on a link that is not connected they
\* return failure and send nothing.  In no call of any operation is a failed
\* send followed by another send, nor the same frame sent twice.
C7_OneSendNoRetry ==
    /\ (pc = "returned" /\ op \in FireAndForget
            /\ (op = "set_mode" => mode \in DOMAIN mode_mapping)) =>
          IF entry.connected
          THEN /\ Len(trace) = 1
               /\ trace[1].dir = "tx"
               /\ result = (IF trace[1].ok THEN "True" ELSE "False")
          ELSE trace = <<>> /\ result = "False"
    /\ \A k \in 1..Len(trace) :
          (trace[k].dir = "tx" /\ ~trace[k].ok) => k = Len(trace)
    /\ \A j, k \in 1..Len(trace) :
          (j < k /\ trace[j].dir = "tx" /\ trace[k].dir = "tx") => trace[j].f # trace[k].f

\* C7 witness: set_parameter on a connected link, its send failed.
C7_Witness ==
    /\ Returned("set_parameter")
    /\ entry.connected
    /\ Len(trace) = 1
    /\ ~trace[1].ok
    /\ result = "False"

\* C8 (as claimed): an upload of N >= 1 waypoints returns success only if
\* all N items were sent and a mission acknowledgment was received after the
\* last of them, as the last frame of the call.
C8_UploadAtomic ==
    (Returned("upload_mission") /\ result = "True" /\ Len(waypoints) >= 1) =>
        /\ Len(ItemsOf(trace)) = Len(waypoints)
        /\ IsRx(trace[Len(trace)], "MISSION_ACK")
        /\ LastItemAt(trace) = Len(trace) - 1

\* C9 (as claimed): every item sent answers the item request received just
\* before it and carries that request's sequence number.
C9_ItemAnswersRequest ==
    \A k \in 1..Len(trace) :
        IsTx(trace[k], "MISSION_ITEM") =>
            /\ k > 1
            /\ IsRx(trace[k - 1], "MISSION_REQUEST")
            /\ trace[k].f.seq = trace[k - 1].f.seq

\* C10: in an upload the first frame sent is the clear; while the call waits
\* for the acknowledgment of the clear nothing else has been sent; the wait
\* ends only on a mission acknowledgment, and the count is sent right after
\* it; no item is sent before the count has been sent.
C10_HandshakeOrder ==
    op = "upload_mission" =>
        /\ trace # <<>> => IsTx(trace[1], "MISSION_CLEAR_ALL")
        /\ pc = "clear_wait" => trace = <<Tx(MissionClearAll, TRUE)>>
        /\ pc \in {"request_wait", "item_wait"} =>
              (Len(trace) >= 3 /\ IsRx(trace[2], "MISSION_ACK"))
        /\ \A k \in 1..Len(trace) :
              /\ IsTx(trace[k], "MISSION_COUNT") =>
                    (k = 3 /\ trace[1].ok /\ IsRx(trace[2], "MISSION_ACK"))
              /\ IsTx(trace[k], "MISSION_ITEM") =>
                    (k > 3 /\ IsTx(trace[3], "MISSION_COUNT") /\ trace[3].ok)
              /\ k = 2 => IsRx(trace[k], "MISSION_ACK")

\* C10 witness: an item has been sent, after the count, after the
\* acknowledgment of the clear.
C10_Witness ==
    /\ op = "upload_mission"
    /\ pc = "item_wait"
    /\ Len(ItemsOf(trace)) = 1

\* C11 (as claimed): every item sent answers a request addressed to this
\* station's system and component id; a request addressed elsewhere never
\* causes an item to be sent.
C11_ItemsOnlyForAddressedRequests ==
    \A k \in 1..Len(trace) :
        (IsTx(trace[k], "MISSION_ITEM") /\ k > 1 /\ IsRx(trace[k - 1], "MISSION_REQUEST"))
            => AddressedToStation(trace[k - 1].f)

\* C12 (as claimed): the item sent for a waypoint carries the command code
\* the waypoint dictionary names (the generic waypoint command when it names
\* none).
C12_ItemCarriesWaypointCommand ==
    op = "upload_mission" =>
        \A k \in 1..Len(trace) :
            IsTx(trace[k], "MISSION_ITEM") =>
                trace[k].f.command =
                    Get(waypoints[trace[k].f.seq + 1], "command", MAV_CMD_NAV_WAYPOINT)

\* C13 (as claimed): no operation lets an exception escape to its caller.
C13_NoExceptionEscapes ==
    result # "raise"

\* The operations that need a connected link.
NeedLink ==
    {"arm", "disarm", "set_mode", "start_mission", "set_parameter",
     "upload_mission", "get_parameters", "update_telemetry"}

\* C14: close() leaves connected false, whatever the state before; a close()
\* on a handler that is not connected and has no open transport changes no
\* field of the handler; and on a handler that is not connected every
\* command, handshake and poll returns failure at once (get_parameters: the
\* empty mapping), sends nothing and changes no field of the handler.
C14_CloseIdempotent ==
    [][ /\ (pc = "idle" /\ op' = "close")
            => (~connected' /\ pc' = "returned" /\ trace' = <<>>)
        /\ (pc = "idle" /\ op' = "close" /\ ~connected /\ master # "open")
            => handlerVars' = handlerVars
        /\ (pc = "idle" /\ ~connected /\ op' \in NeedLink)
            => /\ pc' = "returned"
               /\ trace' = <<>>
               /\ table' = EmptyTable
               /\ result' = (IF op' = "get_parameters" THEN "dict" ELSE "False")
               /\ handlerVars' = handlerVars
      ]_vars

\* C14 witness: close() has returned on a handler that was already not
\* connected; its transport is closed.
C14_Witness ==
    /\ Returned("close")
    /\ ~entry.connected
    /\ master = "closed"
    /\ ~connected

\* C15 (as claimed): the table a successful get_parameters returns holds
\* exactly the names of the value frames received during that run, and a run
\* that fails or finds the link not connected returns the empty mapping.
C15_TableOnlyThisRun ==
    /\ FetchCompleted => DOMAIN table = DeliveredNames
    /\ (Returned("get_parameters") /\ ~FetchCompleted) => table = EmptyTable

\* C16 (as claimed): after connect() succeeds the recorded vehicle ids are
\* those of the endpoint that sent the heartbeat.
C16_IdentityFromHeartbeat ==
    (Returned("connect") /\ result = "True") =>
        /\ vehicle_system = Heartbeat.src_system
        /\ vehicle_component = Heartbeat.src_component

\* The step is a poll that finds the link connected.
PollStep == pc = "idle" /\ op' = "update_telemetry" /\ connected

\* The kinds of the frames the poll drained.
KindsPolled == {polled'.batch[k].kind : k \in 1..Len(polled'.batch)}

\* The last heartbeat the poll drained.
LastHeartbeatPolled ==
    LET b == polled'.batch
        at == {k \in 1..Len(b) : b[k].kind = "HEARTBEAT"}
    IN  b[CHOOSE k \in at : \A j \in at : j <= k]

\* C17: in a poll, the snapshot's armed, mode and timestamp and the link's
\* last-heartbeat time change only if a HEARTBEAT was drained, and then mode
\* is the name whose id is the custom mode of the last one, or "UNKNOWN" when
\* the table has none, and both times are the time of the poll; latitude,
\* longitude, altitude and heading change only if a GLOBAL_POSITION_INT was
\* drained; groundspeed only if a VFR_HUD was; battery_voltage and
\* battery_remaining only if a SYS_STATUS was; system_status never.  A poll
\* that drains only frames of other kinds leaves the snapshot and the
\* last-heartbeat time as they were and, if its read does not raise and the
\* heartbeat has not timed out, succeeds.
C17_FrameEffects ==
    [][ PollStep =>
          LET t == telemetry
              u == telemetry'
              K == KindsPolled
          IN  /\ "HEARTBEAT" \notin K =>
                    /\ u.armed = t.armed /\ u.mode = t.mode
                    /\ u.timestamp = t.timestamp
                    /\ last_heartbeat' = last_heartbeat
              /\ "HEARTBEAT" \in K =>
                    /\ u.timestamp = now /\ last_heartbeat' = now
                    /\ \/ /\ u.mode \in DOMAIN mode_mapping
                          /\ mode_mapping[u.mode] = LastHeartbeatPolled.custom_mode
                       \/ /\ u.mode = "UNKNOWN"
                          /\ \A n \in DOMAIN mode_mapping :
                                mode_mapping[n] # LastHeartbeatPolled.custom_mode
                    /\ u.armed = (LastHeartbeatPolled.base_mode >= MAV_MODE_FLAG_SAFETY_ARMED)
              /\ "GLOBAL_POSITION_INT" \notin K =>
                    /\ u.latitude = t.latitude /\ u.longitude = t.longitude
                    /\ u.altitude = t.altitude /\ u.heading = t.heading
              /\ "VFR_HUD" \notin K => u.groundspeed = t.groundspeed
              /\ "SYS_STATUS" \notin K =>
                    /\ u.battery_voltage = t.battery_voltage
                    /\ u.battery_remaining = t.battery_remaining
              /\ u.system_status = t.system_status
              /\ (K \cap {"HEARTBEAT", "GLOBAL_POSITION_INT", "VFR_HUD", "SYS_STATUS"} = {}) =>
                    /\ u = t
                    /\ (~polled'.failed /\ now - last_heartbeat <= heartbeat_timeout)
                          => (result' = "True" /\ connected')
      ]_vars

\* C17 witness: a poll drained a heartbeat whose mode the table does not
\* name and a position frame; the snapshot shows mode "UNKNOWN" and the
\* position.
C17_Witness ==
    /\ Returned("update_telemetry")
    /\ polled.batch = <<HeartbeatUnknownMode, GlobalPositionInt>>
    /\ telemetry.mode = "UNKNOWN"
    /\ telemetry.latitude = Ratio(473977000, 10000000)
    /\ telemetry.groundspeed = 12

\* C18: a poll on a connected link whose read does not raise and which
\* drains a HEARTBEAT, at any place among the frames available, succeeds and
\* leaves the link connected, however old the last heartbeat was when the
\* poll began; without a HEARTBEAT among them it fails exactly when the last
\* heartbeat is more than heartbeat_timeout old; and a poll whose read raises
\* sets connected false and returns failure.
C18_DrainBeforeTimeout ==
    [][ PollStep =>
          /\ ("HEARTBEAT" \in KindsPolled /\ ~polled'.failed)
                => (connected' /\ result' = "True")
          /\ ("HEARTBEAT" \notin KindsPolled /\ ~polled'.failed)
                => /\ connected' = (now - last_heartbeat <= heartbeat_timeout)
                   /\ result' = (IF connected' THEN "True" ELSE "False")
          /\ polled'.failed => (~connected' /\ result' = "False")
      ]_vars

\* C18 witness: the last heartbeat was more than heartbeat_timeout old when
\* the poll began; a heartbeat was waiting, followed by another frame; the
\* poll succeeded.
C18_Witness ==
    /\ Returned("update_telemetry")
    /\ now - polled.last > heartbeat_timeout
    /\ polled.batch = <<Heartbeat, OtherFrame>>
    /\ result = "True"
    /\ connected

\* C19 (as claimed): a poll whose read does not raise declares the link lost
\* only if the transport delivered no HEARTBEAT, to any receive of any
\* operation, during the last heartbeat_timeout seconds.
C19_HandshakeHeartbeatsCount ==
    (Returned("update_telemetry") /\ entry.connected /\ ~connected /\ ~polled.failed)
        => (hb_seen = -1 \/ now - hb_seen > heartbeat_timeout)

HandshakeWaits == {"clear_wait", "request_wait", "item_wait", "param_wait"}

\* The kinds of frame that end the wait pc.
AwaitedKinds ==
    IF pc = "clear_wait" THEN {"MISSION_ACK"}
    ELSE IF pc = "request_wait" THEN {"MISSION_REQUEST"}
    ELSE IF pc = "item_wait" THEN {"MISSION_REQUEST", "MISSION_ACK"}
    ELSE {}

\* C20: when the vehicle eventually delivers each frame the station is
\* waiting for, a call of upload_mission or get_parameters that is waiting
\* eventually returns.  A wait has no time limit: time passing changes
\* nothing of the call, and a wait of upload_mission ends, or a frame is
\* sent, only upon receiving a frame of a kind it waits for, or upon a read
\* error, which returns failure and sends nothing.
C20_HandshakesTerminate ==
    /\ (pc \in HandshakeWaits) ~> (pc = "returned")
    /\ [][ /\ (pc \in HandshakeWaits /\ now' # now) => UNCHANGED callVars
           /\ (pc \in HandshakeWaits \ {"param_wait"} /\ (pc' # pc \/ trace' # trace)) =>
                \/ /\ Len(trace') > Len(trace)
                   /\ trace'[Len(trace) + 1].dir = "rx"
                   /\ trace'[Len(trace) + 1].f.kind \in AwaitedKinds
                \/ /\ trace' = trace
                   /\ pc' = "returned"
                   /\ result' = "False"
           /\ (pc = "param_wait" /\ pc' # pc) =>
                (pc' = "returned" /\ result' = "dict" /\ trace' = trace)
         ]_vars

\* C20 witness: an upload of two waypoints has returned success after going
\* through all its waits.
C20_Witness ==
    /\ Returned("upload_mission")
    /\ result = "True"
    /\ Len(waypoints) = 2
    /\ Len(ItemsOf(trace)) = 2
    /\ now > heartbeat_timeout

\* C21 (as claimed): the item sent for the waypoint at index seq carries that
\* waypoint's own fields: its x, y and z in the frame's x, y and z, its p4
\* (yaw angle) in parameter 4 and its autocontinue flag as the frame's
\* autocontinue, for each of these the dictionary has.
C21_ItemCarriesWaypointFields ==
    op = "upload_mission" =>
        \A k \in 1..Len(trace) :
            IsTx(trace[k], "MISSION_ITEM") =>
                LET f == trace[k].f
                    wp == waypoints[f.seq + 1]
                IN  /\ "x" \in DOMAIN wp => f.x = wp.x
                    /\ "y" \in DOMAIN wp => f.y = wp.y
                    /\ "z" \in DOMAIN wp => f.z = wp.z
                    /\ "p4" \in DOMAIN wp => f.param4 = wp.p4
                    /\ "autocontinue" \in DOMAIN wp => f.autocontinue = wp.autocontinue

\* The planner operation name is called in this step.
EditStep(name) == pc = "idle" /\ op' = name

\* C22: under any sequence of add, insert, remove and clear: add_waypoint
\* appends and returns the new last index (length - 1); insert_waypoint(index)
\* succeeds iff 0 <= index <= length, and then the waypoint is at index, the
\* list is one longer and the others keep their relative order;
\* remove_waypoint(index) succeeds iff 0 <= index < length, and then the list
\* is one shorter; an insert or remove that fails leaves the list unchanged;
\* clear_mission leaves the list empty.
C22_ListEditing ==
    [][ LET old == planner_waypoints
            new == planner_waypoints'
            n == Len(planner_waypoints)
        IN  /\ EditStep("add_waypoint") =>
                /\ new = Append(old, edit_args'[1])
                /\ result' = ToString(Len(new) - 1)
            /\ EditStep("insert_waypoint") =>
                LET index == edit_args'[1]
                    wp == edit_args'[2]
                IN  /\ result' = "True" <=> (0 <= index /\ index <= n)
                    /\ result' = "True" =>
                        /\ Len(new) = n + 1
                        /\ new[index + 1] = wp
                        /\ \A k \in 1..n :
                            new[IF k <= index THEN k ELSE k + 1] = old[k]
                    /\ result' # "True" => (result' = "False" /\ new = old)
            /\ EditStep("remove_waypoint") =>
                LET index == edit_args'[1]
                IN  /\ result' = "True" <=> (0 <= index /\ index < n)
                    /\ result' = "True" => Len(new) = n - 1
                    /\ result' # "True" => (result' = "False" /\ new = old)
            /\ EditStep("clear_mission") => new = <<>>
      ]_vars

\* C22 witness: insert_waypoint has put a waypoint between the two of a list
\* whose waypoints all differ.
C22_Witness ==
    /\ Returned("insert_waypoint")
    /\ result = "True"
    /\ edit_args[1] = 1
    /\ Len(planner_waypoints) = 3
    /\ planner_waypoints[1] # planner_waypoints[3]
    /\ planner_waypoints[2] # planner_waypoints[1]
    /\ planner_waypoints[2] # planner_waypoints[3]

====
